---- MODULE Spec2Model ----
(***************************************************************************)
(* Model of src/text_app.py: the corruption engine (corrupt_text), the     *)
(* compression-size oracle (compress_size), the complexity estimator       *)
(* (estimate_text_complexity) and the preview block of the Streamlit page. *)
(*                                                                         *)
(* Characters are Unicode code points, texts are sequences of code points. *)
(* Python indices are 0-based; position idx of a text is element idx + 1.  *)
(***************************************************************************)
EXTENDS Integers, Sequences, FiniteSets, TLC

VARIABLES pc, text, num_corrupt, indices, corrupted, steps, trials, i, sizes,
          compressed_sizes, calls, ret, counts, noise_pct

vars == <<pc, text, num_corrupt, indices, corrupted, steps, trials, i, sizes,
          compressed_sizes, calls, ret, counts, noise_pct>>

(***************************************************************************)
(* Bounds of the model.                                                    *)
(***************************************************************************)
MaxLen == 2
MaxSteps == 3
MaxTrials == 2
MaxSweepLen == 8
MaxSweepSteps == 9
MaxVecLen == 3
MaxSize == 4
MaxPreviewLen == 40
MaxDraws == 3

(***************************************************************************)
(* IEEE-754 binary64 arithmetic on the values the program computes.  A     *)
(* non-negative double is [m, e] with value m * 2^e; the significand m is  *)
(* a natural number below 2^Precision, written as a sequence of limbs in   *)
(* base 2^LimbBits, least significant limb first.                          *)
(***************************************************************************)
Precision == 53
LimbBits == 16
Base == 65536

FZero == [m |-> <<0>>, e |-> 0]
FOne == [m |-> <<1>>, e |-> 0]

RECURSIVE Pow2(_)
Pow2(k) == IF k = 0 THEN 1 ELSE 2 * Pow2(k - 1)

Limb(x, l) == IF l \in 1..Len(x) THEN x[l] ELSE 0

\* Bit j (bit 0 is the least significant) of the limb sequence x.
Bit(x, j) == (Limb(x, (j \div LimbBits) + 1) \div Pow2(j % LimbBits)) % 2

\* Number of significant bits of x.
BitLen(x) ==
    IF \A l \in 1..Len(x) : x[l] = 0 THEN 0
    ELSE LET t == CHOOSE l \in 1..Len(x) :
                      x[l] # 0 /\ \A j \in (l + 1)..Len(x) : x[j] = 0
             b == CHOOSE c \in 1..LimbBits :
                      Pow2(c - 1) <= x[t] /\ x[t] < Pow2(c)
         IN  LimbBits * (t - 1) + b

\* floor(x / 2^s)
ShiftRight(x, s) ==
    LET w == s \div LimbBits
        b == s % LimbBits
    IN  [l \in 1..Len(x) |->
            (Limb(x, l + w) \div Pow2(b))
            + (Limb(x, l + w + 1) % Pow2(b)) * Pow2(LimbBits - b)]

\* x + 1
IncLimbs(x) ==
    [l \in 1..(Len(x) + 1) |->
        IF \A j \in 1..(l - 1) : x[j] = Base - 1
        THEN (Limb(x, l) + 1) % Base
        ELSE Limb(x, l)]

\* Round-to-nearest, ties-to-even, of x * 2^e (plus a non-zero remainder
\* below the last bit when sticky) to Precision significant bits.
RoundNearestEven(x, e, sticky) ==
    IF BitLen(x) <= Precision
    THEN [m |-> x, e |-> e]
    ELSE LET s == BitLen(x) - Precision
             kept == ShiftRight(x, s)
             guard == Bit(x, s - 1)
             rest == sticky \/ \E j \in 0..(s - 2) : Bit(x, j) = 1
             up == guard = 1 /\ (rest \/ Bit(kept, 0) = 1)
             r == IF up THEN IncLimbs(kept) ELSE kept
         IN  IF BitLen(r) > Precision
             THEN [m |-> ShiftRight(r, 1), e |-> e + s + 1]
             ELSE [m |-> r, e |-> e + s]

\* The next c limbs of the quotient r/d below the binary point, and the
\* remainder left after them.
RECURSIVE DivLimbs(_, _, _)
DivLimbs(r, d, c) ==
    IF c = 0 THEN <<>>
    ELSE Append(DivLimbs((r * Base) % d, d, c - 1), (r * Base) \div d)

RECURSIVE DivRem(_, _, _)
DivRem(r, d, c) == IF c = 0 THEN r ELSE DivRem((r * Base) % d, d, c - 1)

\* float(a) / float(d) for small naturals a and d > 0.
FDiv(a, d) ==
    RoundNearestEven(Append(DivLimbs(a % d, d, 5), a \div d),
                     -(5 * LimbBits), DivRem(a % d, d, 5) # 0)

\* x * k, exact, limb by limb from limb l on.
RECURSIVE MulLimbs(_, _, _, _)
MulLimbs(x, k, l, carry) ==
    IF l > Len(x) THEN <<carry>>
    ELSE <<(x[l] * k + carry) % Base>>
         \o MulLimbs(x, k, l + 1, (x[l] * k + carry) \div Base)

\* x * float(k) for a double x and a small natural k.
FMul(x, k) == RoundNearestEven(MulLimbs(x.m, k, 1, 0), x.e, FALSE)

\* int(x): truncation toward zero of a non-negative double.
FInt(x) ==
    LET r == IF x.e >= 0 THEN x.m ELSE ShiftRight(x.m, -x.e)
    IN  (Limb(r, 1) + Base * Limb(r, 2)) * (IF x.e >= 0 THEN Pow2(x.e) ELSE 1)

(***************************************************************************)
(* Exact arithmetic on the measurement values.  A value is [num, den] in   *)
(* lowest terms with den >= 0; den = 0 encodes the non-finite values of    *)
(* floating point: 0/0 is NaN, 1/0 is +inf, -1/0 is -inf.                  *)
(***************************************************************************)
Abs(a) == IF a < 0 THEN -a ELSE a

Sign(a) == IF a < 0 THEN -1 ELSE IF a > 0 THEN 1 ELSE 0

RECURSIVE GCD(_, _)
GCD(a, b) == IF b = 0 THEN a ELSE GCD(b, a % b)

RNorm(a, b) ==
    IF b = 0 THEN [num |-> Sign(a), den |-> 0]
    ELSE LET g == GCD(Abs(a), Abs(b))
         IN  [num |-> (Sign(b) * a) \div g, den |-> Abs(b) \div g]

RInt(k) == [num |-> k, den |-> 1]

NaN == [num |-> 0, den |-> 0]

RAdd(x, y) ==
    IF x.den = 0 /\ y.den = 0
    THEN (IF x.num = y.num THEN x ELSE NaN)
    ELSE RNorm(x.num * y.den + y.num * x.den, x.den * y.den)

RNeg(x) == [num |-> -x.num, den |-> x.den]

RSub(x, y) == RAdd(x, RNeg(y))

RMul(x, y) == RNorm(x.num * y.num, x.den * y.den)

RDiv(x, y) == RNorm(x.num * y.den, x.den * y.num)

IsFinite(x) == x.den # 0

RECURSIVE RSum(_)
RSum(v) == IF v = <<>> THEN RInt(0) ELSE RAdd(v[1], RSum(Tail(v)))

RECURSIVE SumInts(_)
SumInts(v) == IF v = <<>> THEN 0 ELSE v[1] + SumInts(Tail(v))

(***************************************************************************)
(* string.printable of the Python standard library, as code points in the  *)
(* order of the string: digits + ascii_letters + punctuation + whitespace. *)
(***************************************************************************)
digits == [j \in 1..10 |-> 47 + j]
ascii_lowercase == [j \in 1..26 |-> 96 + j]
ascii_uppercase == [j \in 1..26 |-> 64 + j]
ascii_letters == ascii_lowercase \o ascii_uppercase
punctuation ==
    [j \in 1..15 |-> 32 + j] \o [j \in 1..7 |-> 57 + j]
    \o [j \in 1..6 |-> 90 + j] \o [j \in 1..4 |-> 122 + j]
whitespace == <<32, 9, 10, 13, 11, 12>>

\* Variant of printable: every ASCII code point.
all_ascii == [j \in 1..128 |-> j - 1]

printable == digits \o ascii_letters \o punctuation \o whitespace

\* random.choice(seq) returns one of the first k elements of seq; with
\* k >= Len(seq) these are all of its possible results.
choice(seq, k) == {seq[j] : j \in 1..(IF k < Len(seq) THEN k ELSE Len(seq))}

(***************************************************************************)
(* random.sample(range(n), k): the possible outcomes are the ValueError    *)
(* raised when k is negative or larger than the population, or any set of  *)
(* k distinct positions of 0..n-1.                                         *)
(***************************************************************************)
sample_raises(n, k) == ~(0 <= k /\ k <= n)

\* Variants of sample with a plausible slip: drawing with replacement
\* (random.choices), and clamping k into range instead of raising.
sample_with_replacement(n, k) ==
    IF sample_raises(n, k)
    THEN {[raised |-> TRUE, indices |-> {}]}
    ELSE {[raised |-> FALSE, indices |-> {f[j] : j \in 1..k}] :
             f \in [1..k -> 0..(n - 1)]}

sample_clamped(n, k) ==
    LET kk == IF k < 0 THEN 0 ELSE IF k > n THEN n ELSE k
    IN  {[raised |-> FALSE, indices |-> S] :
            S \in {T \in SUBSET (0..(n - 1)) : Cardinality(T) = kk}}

sample(n, k) ==
    IF sample_raises(n, k)
    THEN {[raised |-> TRUE, indices |-> {}]}
    ELSE {[raised |-> FALSE, indices |-> S] :
             S \in {T \in SUBSET (0..(n - 1)) : Cardinality(T) = k}}

(***************************************************************************)
(* The loop of corrupt_text: chars = list(text), every sampled position    *)
(* idx receives c[idx], its random.choice(string.printable), and the       *)
(* characters are joined.  The sampled positions are distinct, so the      *)
(* order of the assignments does not show in the result.                   *)
(***************************************************************************)
corrupt_chars(t, S, c) ==
    [p \in 1..Len(t) |-> IF (p - 1) \in S THEN c[p - 1] ELSE t[p]]

(***************************************************************************)
(* compress_size: text.encode('utf-8'), zlib.compress at the default       *)
(* level, len.  The zlib stream is a 2-byte header, one final deflate      *)
(* block and the 4-byte Adler-32.  For an input without a repeated 3-byte  *)
(* substring (every input of at most 4 bytes) deflate emits one block with *)
(* the fixed Huffman code and only literals: 3 header bits, 8 bits per     *)
(* byte below 144 and 9 bits per byte from 144 on, 7 bits of end-of-block. *)
(***************************************************************************)
encode_char(c) ==
    IF c < 128 THEN <<c>>
    ELSE IF c < 2048 THEN <<192 + (c \div 64), 128 + (c % 64)>>
    ELSE IF c < 65536
         THEN <<224 + (c \div 4096), 128 + ((c \div 64) % 64), 128 + (c % 64)>>
         ELSE <<240 + (c \div 262144), 128 + ((c \div 4096) % 64),
                128 + ((c \div 64) % 64), 128 + (c % 64)>>

literal_bits(b) == IF b < 144 THEN 8 ELSE 9

\* Bits of the literals that encode the bytes of character c.
char_bits(c) == SumInts([j \in 1..Len(encode_char(c)) |->
                            literal_bits(encode_char(c)[j])])

compress_size(t) ==
    LET body == 3 + SumInts([p \in 1..Len(t) |-> char_bits(t[p])]) + 7
    IN  2 + ((body + 7) \div 8) + 4

(***************************************************************************)
(* estimate_text_complexity.                                               *)
(***************************************************************************)
\* np.linspace(0.0, 1.0, steps)[j]: step = 1.0 / (steps - 1), the samples
\* are arange(steps) * step, and the last of two or more is set to 1.0.
step_frac(st, j) ==
    IF st = 1 THEN FZero
    ELSE IF j = st - 1 THEN FOne
    ELSE FMul(FDiv(1, st - 1), j)

\* Variant of corrupt_count with the subtraction reversed.
corrupt_count_reversed(n, frac) == FInt(FMul(frac, n)) - n

\* keep = int(frac * n); corrupt = n - keep
corrupt_count(n, frac) == n - FInt(FMul(frac, n))

\* np.mean(sizes); the mean of no values is NaN.
mean(v) == RNorm(SumInts(v), Len(v))

NoResult ==
    [V |-> <<>>, V0 |-> NaN, VN |-> NaN, A |-> NaN, B |-> NaN, EF |-> NaN,
     AC |-> NaN, SS |-> NaN, C |-> NaN, C_norm |-> NaN]

\* Variants of derived_scalars with a plausible slip: the zero-denominator
\* guards dropped; SS taken as the ratio VN / V0; the areas of the other
\* scoring variant (sums over V[1:], multiplier N).
derived_scalars_unguarded(V, st) ==
    LET V0 == V[1]
        VN == V[Len(V)]
        N == st - 1
        A == RAdd(RMul(RInt(-(N + 1)), VN), RSum(V))
        B == RAdd(RNeg(RSum(V)), RMul(RInt(N + 1), V0))
        EF == RDiv(A, B)
        SS == RDiv(RSub(V0, VN), V0)
        C == RMul(RMul(EF, VN), SS)
    IN  [V |-> V, V0 |-> V0, VN |-> VN, A |-> A, B |-> B, EF |-> EF,
         AC |-> VN, SS |-> SS, C |-> C, C_norm |-> RDiv(C, V0)]

derived_scalars_ratio(V, st) ==
    LET V0 == V[1]
        VN == V[Len(V)]
        N == st - 1
        A == RAdd(RMul(RInt(-(N + 1)), VN), RSum(V))
        B == RAdd(RNeg(RSum(V)), RMul(RInt(N + 1), V0))
        EF == IF B # RInt(0) THEN RDiv(A, B) ELSE RInt(0)
        SS == IF V0 # RInt(0) THEN RDiv(VN, V0) ELSE RInt(0)
        C == RMul(RMul(EF, VN), SS)
        C_norm == IF V0 # RInt(0) THEN RDiv(C, V0) ELSE RInt(0)
    IN  [V |-> V, V0 |-> V0, VN |-> VN, A |-> A, B |-> B, EF |-> EF,
         AC |-> VN, SS |-> SS, C |-> C, C_norm |-> C_norm]

derived_scalars_variant_b(V, st) ==
    LET V0 == V[1]
        VN == V[Len(V)]
        N == st - 1
        A == RAdd(RMul(RInt(-N), VN), RSum(Tail(V)))
        B == RAdd(RNeg(RSum(Tail(V))), RMul(RInt(N), V0))
        EF == IF B # RInt(0) THEN RDiv(A, B) ELSE RInt(0)
        SS == IF V0 # RInt(0) THEN RDiv(RSub(V0, VN), V0) ELSE RInt(0)
        C == RMul(RMul(EF, VN), SS)
        C_norm == IF V0 # RInt(0) THEN RDiv(C, V0) ELSE RInt(0)
    IN  [V |-> V, V0 |-> V0, VN |-> VN, A |-> A, B |-> B, EF |-> EF,
         AC |-> VN, SS |-> SS, C |-> C, C_norm |-> C_norm]

\* Lines 33-43: the scalars derived from the measurement vector V.
derived_scalars(V, st) ==
    LET V0 == V[1]
        VN == V[Len(V)]
        N == st - 1
        A == RAdd(RMul(RInt(-(N + 1)), VN), RSum(V))
        B == RAdd(RNeg(RSum(V)), RMul(RInt(N + 1), V0))
        EF == IF B # RInt(0) THEN RDiv(A, B) ELSE RInt(0)
        AC == VN
        SS == IF V0 # RInt(0) THEN RDiv(RSub(V0, VN), V0) ELSE RInt(0)
        C == RMul(RMul(EF, AC), SS)
        C_norm == IF V0 # RInt(0) THEN RDiv(C, V0) ELSE RInt(0)
    IN  [V |-> V, V0 |-> V0, VN |-> VN, A |-> A, B |-> B, EF |-> EF,
         AC |-> AC, SS |-> SS, C |-> C, C_norm |-> C_norm]

(***************************************************************************)
(* Inputs.                                                                 *)
(***************************************************************************)
\* Two families of texts: "e-acute, BEL, a" repeated (a non-ASCII, a
\* non-printable and a printable character, all different) and "aaa...".
MixedText(n) == [p \in 1..n |-> <<233, 7, 97>>[((p - 1) % 3) + 1]]

PlainText(n) == [p \in 1..n |-> 97]

Texts == {MixedText(n) : n \in 0..MaxLen} \cup {PlainText(n) : n \in 0..MaxLen}

MinAnalyzeLen == 20

(***************************************************************************)
(* Specification of one call of corrupt_text(text, num_corrupt).           *)
(***************************************************************************)
CorruptInit ==
    /\ pc = "call"
    /\ text \in Texts
    /\ num_corrupt \in (-1)..(MaxLen + 1)
    /\ indices = {}
    /\ corrupted = <<>>
    /\ steps = 0 /\ trials = 0 /\ i = 0 /\ sizes = <<>>
    /\ compressed_sizes = <<>> /\ calls = 0 /\ ret = NoResult
    /\ counts = <<>> /\ noise_pct = 0

CorruptText ==
    /\ pc = "call"
    /\ \E r \in sample(Len(text), num_corrupt) :
          IF r.raised
          THEN /\ pc' = "ValueError"
               /\ UNCHANGED <<indices, corrupted>>
          ELSE \E c \in [r.indices -> choice(printable, Len(printable))] :
                  /\ indices' = r.indices
                  /\ corrupted' = corrupt_chars(text, r.indices, c)
                  /\ pc' = "returned"
    /\ UNCHANGED <<text, num_corrupt, steps, trials, i, sizes,
                   compressed_sizes, calls, ret, counts, noise_pct>>

CorruptNext == CorruptText

SpecCorrupt == CorruptInit /\ [][CorruptNext]_vars

(***************************************************************************)
(* Specification of one call of estimate_text_complexity(text, steps,      *)
(* trials).  pc "loop" is the head of the inner loop; i is the index of    *)
(* the current frac, sizes the list of the current step, calls the number  *)
(* of corrupt_text / compress_size calls made so far.  The random.choice   *)
(* draws of the trials range over the first MaxDraws characters of         *)
(* string.printable.                                                       *)
(***************************************************************************)
EstimateInit ==
    /\ pc = "estimate"
    /\ text \in Texts
    /\ steps \in (-1)..MaxSteps
    /\ trials \in 0..MaxTrials
    /\ i = 0 /\ sizes = <<>> /\ compressed_sizes = <<>> /\ calls = 0
    /\ ret = NoResult
    /\ num_corrupt = 0 /\ indices = {} /\ corrupted = <<>>
    /\ counts = <<>> /\ noise_pct = 0

\* Line 21: np.linspace raises ValueError for a negative number of samples.
Linspace ==
    /\ pc = "estimate"
    /\ pc' = IF steps < 0 THEN "ValueError" ELSE "loop"
    /\ UNCHANGED <<text, num_corrupt, indices, corrupted, steps, trials, i,
                   sizes, compressed_sizes, calls, ret, counts, noise_pct>>

\* Lines 25-30: one trial, corrupt_text followed by compress_size.
Trial ==
    /\ pc = "loop"
    /\ i < steps
    /\ Len(sizes) < trials
    /\ LET corrupt == corrupt_count(Len(text), step_frac(steps, i))
       IN  \E r \in sample(Len(text), corrupt) :
              IF r.raised
              THEN /\ pc' = "ValueError"
                   /\ UNCHANGED <<sizes, calls>>
              ELSE \E size \in {compress_size(corrupt_chars(text, r.indices, c)) :
                                   c \in [r.indices -> choice(printable, MaxDraws)]} :
                      /\ sizes' = Append(sizes, size)
                      /\ calls' = calls + 1
                      /\ pc' = pc
    /\ UNCHANGED <<text, num_corrupt, indices, corrupted, steps, trials, i,
                   compressed_sizes, ret, counts, noise_pct>>

\* Line 31: the trials of this step are done, their mean is appended.
EndStep ==
    /\ pc = "loop"
    /\ i < steps
    /\ Len(sizes) >= trials
    /\ compressed_sizes' = Append(compressed_sizes, mean(sizes))
    /\ sizes' = <<>>
    /\ i' = i + 1
    /\ UNCHANGED <<pc, text, num_corrupt, indices, corrupted, steps, trials,
                   calls, ret, counts, noise_pct>>

\* Lines 33-43: V[0] of an empty array raises IndexError.
Derive ==
    /\ pc = "loop"
    /\ i >= steps
    /\ IF compressed_sizes = <<>>
       THEN pc' = "IndexError" /\ ret' = ret
       ELSE pc' = "returned" /\ ret' = derived_scalars(compressed_sizes, steps)
    /\ UNCHANGED <<text, num_corrupt, indices, corrupted, steps, trials, i,
                   sizes, compressed_sizes, calls, counts, noise_pct>>

EstimateNext == Linspace \/ Trial \/ EndStep \/ Derive

SpecEstimate == EstimateInit /\ [][EstimateNext]_vars

\* The call is synchronous and single-threaded: it keeps running, so every
\* step of it is weakly fair.  For Trial and Derive the weak fairness
\* condition is written out with the enabling condition of the action
\* (its guard; a sample outcome and a drawn character always exist).
TrialEnabled == pc = "loop" /\ i < steps /\ Len(sizes) < trials

DeriveEnabled == pc = "loop" /\ i >= steps

FairSpecEstimate ==
    /\ SpecEstimate
    /\ WF_vars(Linspace)
    /\ WF_vars(EndStep)
    /\ ([]<>~TrialEnabled \/ []<><<Trial>>_vars)
    /\ ([]<>~DeriveEnabled \/ []<><<Derive>>_vars)

(***************************************************************************)
(* Specification of the sweep of corruption counts (lines 20-26) alone:    *)
(* counts[j] is the count passed to corrupt_text at step j - 1 for a text  *)
(* of Len(text) characters.                                                *)
(***************************************************************************)
SweepInit ==
    /\ pc = "sweep"
    /\ text \in {PlainText(n) : n \in 1..MaxSweepLen}
    /\ steps \in 2..MaxSweepSteps
    /\ counts = <<>>
    /\ trials = 1 /\ i = 0 /\ sizes = <<>> /\ compressed_sizes = <<>>
    /\ calls = 0 /\ ret = NoResult
    /\ num_corrupt = 0 /\ indices = {} /\ corrupted = <<>> /\ noise_pct = 0

Sweep ==
    /\ pc = "sweep"
    /\ counts' = [j \in 1..steps |->
                     corrupt_count(Len(text), step_frac(steps, j - 1))]
    /\ pc' = "swept"
    /\ UNCHANGED <<text, num_corrupt, indices, corrupted, steps, trials, i,
                   sizes, compressed_sizes, calls, ret, noise_pct>>

SweepNext == Sweep

SpecSweep == SweepInit /\ [][SweepNext]_vars

(***************************************************************************)
(* Specification of the derivation of the scalars (lines 33-43) from an    *)
(* arbitrary measurement vector: the estimator at the exit of its loop.    *)
(***************************************************************************)
MeanValues == {RNorm(a, d) : a \in 0..MaxSize, d \in 1..MaxTrials}

MetricsInit ==
    /\ pc = "loop"
    /\ steps \in 1..MaxVecLen
    /\ compressed_sizes \in [1..steps -> MeanValues]
    /\ i = steps
    /\ text = <<>> /\ trials = 1 /\ sizes = <<>> /\ calls = 0
    /\ ret = NoResult
    /\ num_corrupt = 0 /\ indices = {} /\ corrupted = <<>>
    /\ counts = <<>> /\ noise_pct = 0

MetricsNext == Derive

SpecMetrics == MetricsInit /\ [][MetricsNext]_vars

(***************************************************************************)
(* Specification of the preview block (lines 112, 131-141).  The slider    *)
(* offers the noise levels 0, 5, ..., 100.  The preview string is only     *)
(* displayed; the model keeps the count and the outcome of the call.       *)
(***************************************************************************)
\* Variant of preview_count that rounds to the nearest integer.
preview_count_rounded(pct, n) == (2 * pct * n + 100) \div 200

\* Line 133: int((noise_pct / 100) * len(text_to_analyze))
preview_count(pct, n) == FInt(FMul(FDiv(pct, 100), n))

PreviewInit ==
    /\ pc = "page"
    /\ text \in {PlainText(n) : n \in (MinAnalyzeLen - 2)..MaxPreviewLen}
    /\ noise_pct \in {5 * q : q \in 0..20}
    /\ num_corrupt = 0
    /\ indices = {} /\ corrupted = <<>>
    /\ steps = 0 /\ trials = 0 /\ i = 0 /\ sizes = <<>>
    /\ compressed_sizes = <<>> /\ calls = 0 /\ ret = NoResult
    /\ counts = <<>>

Preview ==
    /\ pc = "page"
    /\ Len(text) >= MinAnalyzeLen
    /\ num_corrupt' = preview_count(noise_pct, Len(text))
    /\ pc' = IF noise_pct > 0
             THEN (IF sample_raises(Len(text), num_corrupt')
                   THEN "ValueError"
                   ELSE "preview_corrupted")
             ELSE "preview_original"
    /\ UNCHANGED <<text, indices, corrupted, steps, trials, i, sizes,
                   compressed_sizes, calls, ret, counts, noise_pct>>

\* Line 141: fewer than 20 characters, only the hint is shown.
TooShort ==
    /\ pc = "page"
    /\ Len(text) < MinAnalyzeLen
    /\ pc' = "info"
    /\ UNCHANGED <<text, num_corrupt, indices, corrupted, steps, trials, i,
                   sizes, compressed_sizes, calls, ret, counts, noise_pct>>

PreviewNext == Preview \/ TooShort

SpecPreview == PreviewInit /\ [][PreviewNext]_vars

(***************************************************************************)
(* Properties of corrupt_text (checked under SpecCorrupt).                 *)
(***************************************************************************)
\* C1: for 0 <= num_corrupt <= len(t), corrupt_text returns a text of the
\* same length that equals t outside a set of exactly num_corrupt distinct
\* selected positions; corrupt_text(t, 0) = t.
C1_CorruptFrame ==
    /\ (pc # "call" /\ 0 <= num_corrupt /\ num_corrupt <= Len(text))
          => pc = "returned"
    /\ pc = "returned" =>
          /\ Len(corrupted) = Len(text)
          /\ indices \subseteq 0..(Len(text) - 1)
          /\ Cardinality(indices) = num_corrupt
          /\ \A p \in 1..Len(text) :
                (p - 1) \notin indices => corrupted[p] = text[p]
          /\ num_corrupt = 0 => corrupted = text

C1_Witness ==
    /\ pc = "returned"
    /\ Len(text) = 2
    /\ num_corrupt = 1
    /\ indices = {1}
    /\ corrupted[1] = text[1]
    /\ corrupted[2] # text[2]

\* C2: a call with num_corrupt > len(text) or num_corrupt < 0 ends in the
\* error outcome: nothing is returned and the text is unchanged.
C2_OutOfRangeRaises ==
    [][(pc = "call" /\ (num_corrupt > Len(text) \/ num_corrupt < 0))
          => (pc' = "ValueError" /\ corrupted' = <<>> /\ indices' = {}
              /\ text' = text)]_vars

C2_Witness ==
    /\ pc = "ValueError"
    /\ Len(text) = 2
    /\ num_corrupt = 3
    /\ corrupted = <<>>

\* C4 as stated: every character written into a selected position is one
\* of the 94 letters, digits and punctuation characters or the space.
ClaimedPrintable == (33..126) \cup {32}

C4_Only94 ==
    pc = "returned" =>
        \A p \in indices : corrupted[p + 1] \in ClaimedPrintable

\* C4 as amended: every character written into a selected position is one
\* of the 100 characters of string.printable, the 95 characters from space
\* to "~" or one of tab, line feed, vertical tab, form feed, carriage
\* return (code points 9 to 13); after corrupting all positions the whole
\* result consists of such characters.
C4_PrintableOnly ==
    pc = "returned" =>
        /\ \A p \in indices : corrupted[p + 1] \in (32..126) \cup (9..13)
        /\ num_corrupt = Len(text) =>
              \A p \in 1..Len(text) : corrupted[p] \in (32..126) \cup (9..13)

C4_Witness ==
    /\ pc = "returned"
    /\ text = <<233, 7>>
    /\ num_corrupt = 2
    /\ corrupted = <<9, 126>>

(***************************************************************************)
(* Properties of estimate_text_complexity.                                 *)
(***************************************************************************)
\* C3 as stated: a call with steps < 2 or trials < 1 does not return a
\* result tuple (checked under SpecEstimate).
C3_InvalidArgumentsRaise ==
    (steps < 2 \/ trials < 1) => (pc # "returned" /\ ret = NoResult)

\* C5 as stated: the corrupt count of step i is n - floor(i*n/(steps-1)),
\* it lies in 0..n, the counts do not increase, step 0 corrupts all n
\* positions and the last step none (checked under SpecSweep).
C5_CountsAreExactFloor ==
    pc = "swept" =>
        /\ Len(counts) = steps
        /\ \A j \in 1..steps :
              /\ counts[j] = Len(text) - (((j - 1) * Len(text)) \div (steps - 1))
              /\ counts[j] \in 0..Len(text)
        /\ \A j \in 1..(steps - 1) : counts[j] >= counts[j + 1]
        /\ counts[1] = Len(text)
        /\ counts[steps] = 0

\* C6: a call with len(text) >= 1, steps >= 2 and trials >= 1 runs to
\* completion: it returns after exactly steps * trials corrupt-then-compress
\* operations, without an error, and every returned scalar is a finite
\* number (checked under FairSpecEstimate).
RetFinite ==
    /\ \A j \in 1..Len(ret.V) : IsFinite(ret.V[j])
    /\ IsFinite(ret.V0) /\ IsFinite(ret.VN) /\ IsFinite(ret.A)
    /\ IsFinite(ret.B) /\ IsFinite(ret.EF) /\ IsFinite(ret.AC)
    /\ IsFinite(ret.SS) /\ IsFinite(ret.C) /\ IsFinite(ret.C_norm)

C6_RunsToCompletion ==
    (pc = "estimate" /\ Len(text) >= 1 /\ steps >= 2 /\ trials >= 1)
       ~> (pc = "returned" /\ calls = steps * trials
           /\ Len(ret.V) = steps /\ RetFinite)

C6_Witness ==
    /\ pc = "returned"
    /\ Len(text) = 2
    /\ steps = 3
    /\ trials = 2
    /\ calls = 6
    /\ RetFinite

(***************************************************************************)
(* Properties of the derived scalars (checked under SpecMetrics).          *)
(***************************************************************************)
\* C7: zero denominators resolve to 0: B = 0 gives EF = 0, V0 = 0 gives
\* SS = 0, C = 0 and C_norm = 0, and no scalar is infinite or NaN.
C7_DegenerateFallback ==
    pc = "returned" =>
        /\ ret.B = RInt(0) => ret.EF = RInt(0)
        /\ ret.V0 = RInt(0) =>
              (ret.SS = RInt(0) /\ ret.C = RInt(0) /\ ret.C_norm = RInt(0))
        /\ RetFinite

C7_Witness ==
    /\ pc = "returned"
    /\ ret.V0 = RInt(0)
    /\ ret.VN # RInt(0)
    /\ ret.EF # RInt(0)
    /\ ret.C = RInt(0)

\* C8: equal endpoints V0 = VN give SS = 0, C = 0 and C_norm = 0, whatever
\* the intermediate values are.
C8_FlatEndpoints ==
    (pc = "returned" /\ ret.V0 = ret.VN) =>
        (ret.SS = RInt(0) /\ ret.C = RInt(0) /\ ret.C_norm = RInt(0))

C8_Witness ==
    /\ pc = "returned"
    /\ Len(ret.V) = 3
    /\ ret.V0 = ret.VN
    /\ ret.V0 # RInt(0)
    /\ ret.V[2] # ret.V0
    /\ ret.EF # RInt(0)

\* C9: the scalars are the Variant A derivation.  A is the sum over all
\* steps of V[i] - VN, B the sum over all steps of V0 - V[i]; EF * B = A
\* (EF = 0 when B = 0); AC = VN; SS * V0 = V0 - VN, C * V0 =
\* EF * VN * (V0 - VN) and C_norm * V0 = C (all 0 when V0 = 0).
RECURSIVE AreaAbove(_, _)
AreaAbove(v, low) ==
    IF v = <<>> THEN RInt(0)
    ELSE RAdd(RSub(v[1], low), AreaAbove(Tail(v), low))

RECURSIVE AreaBelow(_, _)
AreaBelow(v, high) ==
    IF v = <<>> THEN RInt(0)
    ELSE RAdd(RSub(high, v[1]), AreaBelow(Tail(v), high))

C9_VariantA ==
    pc = "returned" =>
        /\ ret.V = compressed_sizes
        /\ ret.V0 = compressed_sizes[1]
        /\ ret.VN = compressed_sizes[steps]
        /\ ret.A = AreaAbove(compressed_sizes, ret.VN)
        /\ ret.B = AreaBelow(compressed_sizes, ret.V0)
        /\ RMul(ret.EF, ret.B) = (IF ret.B = RInt(0) THEN RInt(0) ELSE ret.A)
        /\ ret.B = RInt(0) => ret.EF = RInt(0)
        /\ ret.AC = ret.VN
        /\ RMul(ret.SS, ret.V0) =
              (IF ret.V0 = RInt(0) THEN RInt(0) ELSE RSub(ret.V0, ret.VN))
        /\ RMul(ret.C, ret.V0) =
              RMul(RMul(ret.EF, ret.VN),
                   IF ret.V0 = RInt(0) THEN RInt(0) ELSE RSub(ret.V0, ret.VN))
        /\ RMul(ret.C_norm, ret.V0) =
              (IF ret.V0 = RInt(0) THEN RInt(0) ELSE ret.C)
        /\ ret.V0 = RInt(0) => (ret.C = RInt(0) /\ ret.C_norm = RInt(0))

C9_Witness ==
    /\ pc = "returned"
    /\ compressed_sizes = <<RInt(4), RInt(3), RInt(1)>>
    /\ ret.A = RInt(5)
    /\ ret.B = RInt(4)
    /\ ret.EF = RNorm(5, 4)
    /\ ret.SS = RNorm(3, 4)
    /\ ret.C = RNorm(15, 16)
    /\ ret.C_norm = RNorm(15, 64)

(***************************************************************************)
(* Properties of the preview (checked under SpecPreview).                  *)
(***************************************************************************)
Shown == pc \in {"preview_corrupted", "preview_original"}

\* C10 as stated: num_corrupt is noise_pct/100 * len(text) rounded to the
\* nearest integer.
C10_RoundsToNearest ==
    Shown => Abs(100 * num_corrupt - noise_pct * Len(text)) <= 50

\* C10 as amended: num_corrupt is the double product (noise_pct/100) *
\* len(text) truncated toward zero, never rounded up: it is
\* floor(noise_pct * len(text) / 100) or one less; it lies in
\* 0..len(text) and the preview call of corrupt_text never fails.
C10_Truncates ==
    /\ pc # "ValueError"
    /\ Shown =>
          /\ num_corrupt \in 0..Len(text)
          /\ 100 * num_corrupt <= noise_pct * Len(text)
          /\ noise_pct * Len(text) < 100 * (num_corrupt + 2)

C10_Witness ==
    /\ pc = "preview_corrupted"
    /\ noise_pct = 75
    /\ Len(text) = 21
    /\ num_corrupt = 15

====
